---- MODULE Spec2Model ----
(***************************************************************************)
(* Model of the WebSocket connection registry of calenote                  *)
(* (src/websocket_manager.py, class ConnectionManager).                    *)
(*                                                                         *)
(* The manager runs on one asyncio event loop: the code between two        *)
(* `await`s is one atomic step, and at every `await websocket.accept()` /  *)
(* `await websocket.send_json()` the coroutine may be suspended while any  *)
(* other coroutine runs.  Every action below is one such atomic segment.   *)
(***************************************************************************)
EXTENDS Integers, Sequences, FiniteSets, TLC

\* ---- bounds of the model -------------------------------------------------
NumUsers == 2
NumCalendars == 2
NumChannels == 2
NumProcs == 2
NumEndpoints == 2
NumRequests == 1

Users == 1..NumUsers
Calendars == 1..NumCalendars
WebSockets == 1..NumChannels
Procs == 1..NumProcs
Endpoints == 1..NumEndpoints
\* the handler slots that REST requests take
Requests == 1..NumRequests
\* Python's None (exclude_user default, unused locals)
None == 0

VARIABLES
    active_connections,   \* {user_id: {calendar_id: WebSocket}}, insertion ordered
    calendar_subscribers, \* {calendar_id: set(user_id)}
    procs,                \* the coroutines currently inside a manager method
    returned,             \* the call that returned or raised in the last step
    endpoints,            \* the request handlers of the application under way
    finished              \* the request, or the handling of one client message,
                          \* that ended in the last step

vars == <<active_connections, calendar_subscribers, procs, returned,
          endpoints, finished>>

\* ---- Python containers ---------------------------------------------------
\* A dict {calendar_id: WebSocket} is the sequence of its items in insertion
\* order (dicts keep insertion order; iteration follows it).
Keys(d) == {d[i].k : i \in 1..Len(d)}
Has(d, k) == k \in Keys(d)
\* (changed: the first value of the dict, whatever the key)
Get_first(d, k) == d[1].v

\* d[k], for a key that is there
Get(d, k) == d[CHOOSE i \in 1..Len(d) : d[i].k = k].v
Items(d) == {d[i] : i \in 1..Len(d)}
\* (changed: the value is added without looking for the key, as in a list)
SetItem_appends(d, k, v) == Append(d, [k |-> k, v |-> v])

\* d[k] = v : an existing key keeps its place, a new key goes last
SetItem(d, k, v) ==
    IF Has(d, k)
    THEN [i \in 1..Len(d) |-> IF d[i].k = k THEN [k |-> k, v |-> v] ELSE d[i]]
    ELSE Append(d, [k |-> k, v |-> v])
\* del d[k] : KeyError when k is missing
DelItem(d, k) ==
    [raised |-> ~Has(d, k), d |-> SelectSeq(d, LAMBDA e : e.k # k)]

\* The outer dicts are functions on the set of their keys.
Put(f, k, v) == [x \in DOMAIN f \cup {k} |-> IF x = k THEN v ELSE f[x]]
DelKey(f, k) == [x \in DOMAIN f \ {k} |-> f[x]]

Registry == [ac |-> active_connections, cs |-> calendar_subscribers]
\* ConnectionManager.__init__
EmptyRegistry == [ac |-> <<>>, cs |-> <<>>]

\* ---- ConnectionManager: the synchronous parts ----------------------------
\* connect(), the part after `await websocket.accept()`
connect(reg, websocket, user_id, calendar_id) ==
    LET ac1 == IF user_id \notin DOMAIN reg.ac
               THEN Put(reg.ac, user_id, <<>>) ELSE reg.ac
        ac2 == Put(ac1, user_id, SetItem(ac1[user_id], calendar_id, websocket))
        cs1 == IF calendar_id \notin DOMAIN reg.cs
               THEN Put(reg.cs, calendar_id, {}) ELSE reg.cs
        cs2 == Put(cs1, calendar_id, cs1[calendar_id] \cup {user_id})
    IN  [ac |-> ac2, cs |-> cs2]

\* (changed: the subscriber set is left alone)
disconnect_keepsSubscriber(reg, user_id, calendar_id) ==
    LET hasU == user_id \in DOMAIN reg.ac
        hasUC == hasU /\ Has(reg.ac[user_id], calendar_id)
        ac1 == IF hasUC
               THEN Put(reg.ac, user_id, DelItem(reg.ac[user_id], calendar_id).d)
               ELSE reg.ac
        ac2 == IF hasU /\ ac1[user_id] = <<>> THEN DelKey(ac1, user_id) ELSE ac1
    IN  [ac |-> ac2, cs |-> reg.cs, raised |-> FALSE]

\* (changed: an emptied subscriber set and an emptied user dict stay)
disconnect_keepsEmpty(reg, user_id, calendar_id) ==
    LET hasUC == user_id \in DOMAIN reg.ac /\ Has(reg.ac[user_id], calendar_id)
    IN  [ac |-> IF hasUC
                THEN Put(reg.ac, user_id, DelItem(reg.ac[user_id], calendar_id).d)
                ELSE reg.ac,
         cs |-> IF calendar_id \in DOMAIN reg.cs
                THEN Put(reg.cs, calendar_id, reg.cs[calendar_id] \ {user_id})
                ELSE reg.cs,
         raised |-> FALSE]

\* (changed: `del self.active_connections[user_id][calendar_id]` without the
\* test that the calendar is there)
disconnect_unguarded(reg, user_id, calendar_id) ==
    LET hasU == user_id \in DOMAIN reg.ac
        del1 == IF hasU THEN DelItem(reg.ac[user_id], calendar_id)
                ELSE [raised |-> FALSE, d |-> <<>>]
        ac1 == IF hasU /\ ~del1.raised THEN Put(reg.ac, user_id, del1.d)
               ELSE reg.ac
        ac2 == IF hasU /\ ac1[user_id] = <<>> THEN DelKey(ac1, user_id) ELSE ac1
        hasC == calendar_id \in DOMAIN reg.cs
        cs1 == IF hasC
               THEN Put(reg.cs, calendar_id, reg.cs[calendar_id] \ {user_id})
               ELSE reg.cs
        cs2 == IF hasC /\ cs1[calendar_id] = {} THEN DelKey(cs1, calendar_id)
               ELSE cs1
    IN  IF del1.raised THEN [ac |-> reg.ac, cs |-> reg.cs, raised |-> TRUE]
        ELSE [ac |-> ac2, cs |-> cs2, raised |-> FALSE]

\* disconnect(); raised is TRUE when one of its `del` statements would raise
disconnect(reg, user_id, calendar_id) ==
    LET hasU == user_id \in DOMAIN reg.ac
        hasUC == hasU /\ Has(reg.ac[user_id], calendar_id)
        del1 == IF hasUC THEN DelItem(reg.ac[user_id], calendar_id)
                ELSE [raised |-> FALSE, d |-> <<>>]
        ac1 == IF hasUC THEN Put(reg.ac, user_id, del1.d) ELSE reg.ac
        emptyU == hasU /\ ac1[user_id] = <<>>
        ac2 == IF emptyU THEN DelKey(ac1, user_id) ELSE ac1
        hasC == calendar_id \in DOMAIN reg.cs
        cs1 == IF hasC
               THEN Put(reg.cs, calendar_id, reg.cs[calendar_id] \ {user_id})
               ELSE reg.cs
        emptyC == hasC /\ cs1[calendar_id] = {}
        cs2 == IF emptyC THEN DelKey(cs1, calendar_id) ELSE cs1
    IN  [ac |-> ac2, cs |-> cs2,
         raised |-> del1.raised
                    \/ (emptyU /\ user_id \notin DOMAIN ac1)
                    \/ (emptyC /\ calendar_id \notin DOMAIN cs1)]

get_calendar_subscriber_count(reg, calendar_id) ==
    IF calendar_id \notin DOMAIN reg.cs THEN 0
    ELSE Cardinality(reg.cs[calendar_id])

get_user_connections(reg, user_id) ==
    IF user_id \notin DOMAIN reg.ac THEN 0
    ELSE Len(reg.ac[user_id])


\* ---- the coroutines ------------------------------------------------------
\* One record per coroutine.  pc is where it stands:
\*   "idle"   not inside a manager method
\*   "accept" connect(), suspended in `await websocket.accept()`
\*   "send"   a broadcast, suspended in `await websocket.send_json(message)`
\* and in `returned`, the record of a call as its last segment left it:
\*   "done"   the method returned normally;  "raised": it raised
\* Locals of the running method:
\*   user, cal, excl, ws   arguments and loop variables (user_id, calendar_id,
\*                         exclude_user, websocket)
\*   rem                   broadcast_to_calendar: members of `subscribers` the
\*                         for loop has not reached yet
\*   it_rem, it_used, it_len, it_att
\*                         broadcast_to_user: the dict item iterator
\*   disc                  disconnected_users / disconnected_calendars
\* History of the call, read only by the properties:
\*   subs0   calendar_subscribers[calendar_id] when broadcast_to_calendar
\*           began (connect(): just before it registered)
\*   held0   items of active_connections[user_id] when broadcast_to_user began
\*           (connect(): just before it registered)
\*   held    the items of held0 that stayed registered, unchanged, ever since
\*   stayed  the members of subs0 that stayed registered for the calendar
\*           ever since
\*   log     the send attempts of this call, in order
\*   clean   no other caller changed the registry during this call
\*   was     connect(), disconnect(): the pair was registered when it ran
IdleProc ==
    [pc |-> "idle", op |-> "none", user |-> None, cal |-> None, excl |-> None,
     ws |-> None, rem |-> {}, it_rem |-> <<>>, it_used |-> 0, it_len |-> 0,
     it_att |-> FALSE, disc |-> <<>>, subs0 |-> {}, held0 |-> {}, held |-> {},
     stayed |-> {}, log |-> <<>>, clean |-> TRUE, was |-> FALSE]

\* ---- the request handlers ------------------------------------------------
\* A message is the dict handed to send_json: its "type" as the pair
\* <<entity, action>> of "entity:action" (<<"pong">> has no action), the keys
\* the dict has, and the subscriber count where its data carries one.
Message(type, parts, subscribers) ==
    [type |-> type, parts |-> parts, subscribers |-> subscribers]
NoMessage == Message(<<>>, {}, None)

\* One record per request handler of the application: the WebSocket endpoint
\* of one client connection, or one REST request.  pc is where it stands:
\*   "idle"      no request
\*   "connect"   in `await manager.connect(...)`
\*   "welcome"   in `await websocket.send_json({"type": "connection:established"...`
\*   "receive"   in `await websocket.receive_json()`
\*   "pong"      in `await websocket.send_json({"type": "pong"})`
\*   "broadcast" in `await manager.broadcast_to_calendar(...)` for a typing or
\*               cursor message
\*   "goodbye"   in the broadcast of user:disconnected
\*   "rest"      a REST endpoint in its broadcast
\* and in `finished`:
\*   "rejected"  the connection was closed before it was accepted
\*   "handled"   one client message (recv) was handled, or the connection was
\*               set up (recv = "open"); the handler is back in "receive"
\*   "ended"     the handler returned or raised
\* kind: "websocket" or the name of the REST endpoint;  auth: what the token
\* and the access check came to;  proc: the coroutine slot of the manager call
\* it is in;  msg: the message it is sending or has handed to the broadcast;
\* calls: the broadcast_to_calendar calls it made for this client message or
\* request;  sent: the sends it made itself for it (message, websocket, ok);
\* connected / disconnected: manager.connect returned / manager.disconnect
\* was called;  code: the close code;  ok: the mutation of a REST request
\* succeeded.
IdleEndpoint ==
    [pc |-> "idle", kind |-> "none", auth |-> "none", user |-> None,
     cal |-> None, ws |-> None, proc |-> None, recv |-> "none",
     msg |-> NoMessage, calls |-> 0, sent |-> <<>>, connected |-> FALSE,
     disconnected |-> FALSE, code |-> None, ok |-> TRUE]

Init ==
    /\ active_connections = EmptyRegistry.ac
    /\ calendar_subscribers = EmptyRegistry.cs
    /\ procs = [p \in Procs |-> IdleProc]
    /\ returned = IdleProc
    /\ endpoints = [h \in Endpoints |-> IdleEndpoint]
    /\ finished = IdleEndpoint

DictOf(reg, user_id) ==
    IF user_id \in DOMAIN reg.ac THEN reg.ac[user_id] ELSE <<>>
Registered(reg, user_id, calendar_id) ==
    user_id \in DOMAIN reg.ac /\ Has(reg.ac[user_id], calendar_id)

\* The item iterator of `self.active_connections[user_id].items()` as the dict
\* it walks changes under it (CPython, dictiter_iternextitem): it_rem is the
\* keys of the live entries at or after the iterator's position, in entry
\* order.  A deleted key leaves the entries, a new key (also one deleted and
\* set again) is entered last, a replaced value keeps its entry.  Once
\* disconnect() has emptied the dict and dropped it from active_connections
\* the iterator is left with the old, empty dict object (it_att = FALSE).
IterObserve(pr, old, new) ==
    IF ~pr.it_att THEN pr
    ELSE IF pr.user \notin DOMAIN new.ac
    THEN [pr EXCEPT !.it_att = FALSE, !.it_rem = <<>>]
    ELSE LET oldD == DictOf(old, pr.user)
             newD == new.ac[pr.user]
             kept == SelectSeq(pr.it_rem, LAMBDA k : Has(newD, k))
             added == SelectSeq(newD, LAMBDA e : ~Has(oldD, e.k))
         IN  [pr EXCEPT !.it_rem =
                 kept \o [i \in 1..Len(added) |-> added[i].k]]

\* What a suspended broadcast sees of a registry change made by someone else.
Observe(pr, old, new) ==
    IF new = old \/ pr.pc # "send" THEN pr
    ELSE IF pr.op = "broadcast_to_user"
    THEN IterObserve([pr EXCEPT !.clean = FALSE,
                         !.held = pr.held \cap Items(DictOf(new, pr.user))],
                     old, new)
    ELSE [pr EXCEPT !.clean = FALSE,
                    !.stayed = {u \in pr.stayed : Registered(new, u, pr.cal)}]

\* Coroutine p (None: a synchronous caller) ends an atomic segment with its
\* record pr and the registry reg.  A call that returned or raised leaves the
\* manager: its record is kept in `returned` for this one state.
Step(p, pr, reg) ==
    /\ active_connections' = reg.ac
    /\ calendar_subscribers' = reg.cs
    /\ procs' = [q \in Procs |->
                    IF q = p
                    THEN (IF pr.pc \in {"done", "raised"} THEN IdleProc ELSE pr)
                    ELSE Observe(procs[q], Registry, reg)]
    /\ returned' = IF pr.pc \in {"done", "raised"} THEN pr ELSE IdleProc

\* Every connect() is handed a WebSocket object of its own: one that is
\* neither registered nor still referred to by a running call or handler.  Which unused
\* object it is makes no difference, so it is the first one.
InUse ==
    UNION {{e.v : e \in Items(active_connections[u])} :
               u \in DOMAIN active_connections}
    \cup {procs[p].ws : p \in Procs}
    \cup {endpoints[h].ws : h \in Endpoints}
    \cup UNION {{e.v : e \in procs[p].held0} : p \in Procs}
    \cup UNION {{procs[p].log[i].ws : i \in 1..Len(procs[p].log)} : p \in Procs}
NewWebSocket(w) ==
    /\ w \notin InUse
    /\ \A v \in WebSockets : v < w => v \in InUse

\* Which free coroutine slot a new call takes makes no difference either.
NewCoroutine(p) ==
    /\ procs[p].pc = "idle"
    /\ \A q \in Procs : q < p => procs[q].pc # "idle"

\* ---- connect -------------------------------------------------------------
\* (changed: the pair is registered before `await websocket.accept()`)
ConnectCall_registersFirst(p, websocket, user_id, calendar_id) ==
    /\ NewCoroutine(p)
    /\ NewWebSocket(websocket)
    /\ Step(p, [IdleProc EXCEPT !.pc = "accept", !.op = "connect",
                                !.user = user_id, !.cal = calendar_id,
                                !.ws = websocket],
            connect(Registry, websocket, user_id, calendar_id))

\* connect() up to `await websocket.accept()`
ConnectCall(p, websocket, user_id, calendar_id) ==
    /\ NewCoroutine(p)
    /\ NewWebSocket(websocket)
    /\ Step(p, [IdleProc EXCEPT !.pc = "accept", !.op = "connect",
                                !.user = user_id, !.cal = calendar_id,
                                !.ws = websocket], Registry)

\* accept() returned: register in both maps, return
ConnectAccepted(p) ==
    /\ procs[p].pc = "accept"
    /\ Step(p, [procs[p] EXCEPT !.pc = "done",
                   !.was = Registered(Registry, procs[p].user, procs[p].cal),
                   !.subs0 = IF procs[p].cal \in DOMAIN calendar_subscribers
                             THEN calendar_subscribers[procs[p].cal] ELSE {},
                   !.held0 = Items(DictOf(Registry, procs[p].user))],
            connect(Registry, procs[p].ws, procs[p].user, procs[p].cal))

\* accept() raised: connect() raises before touching the maps
ConnectAcceptFailed(p) ==
    /\ procs[p].pc = "accept"
    /\ Step(p, [procs[p] EXCEPT !.pc = "raised"], Registry)

\* ---- disconnect ----------------------------------------------------------
\* (changed: disconnect waits while any broadcast is suspended in a send, as
\* if broadcasts held a lock over their sends)
Disconnect_waitsForSends(user_id, calendar_id) ==
    /\ user_id \in Users /\ calendar_id \in Calendars
    /\ \A p \in Procs : procs[p].pc # "send"
    /\ LET r == disconnect(Registry, user_id, calendar_id)
       IN  Step(None,
                [IdleProc EXCEPT !.pc = IF r.raised THEN "raised" ELSE "done",
                                 !.op = "disconnect", !.user = user_id,
                                 !.cal = calendar_id,
                                 !.was = Registered(Registry, user_id, calendar_id)],
                [ac |-> r.ac, cs |-> r.cs])

\* disconnect() is synchronous: one atomic step of whoever calls it
Disconnect(user_id, calendar_id) ==
    /\ user_id \in Users /\ calendar_id \in Calendars
    /\ LET r == disconnect(Registry, user_id, calendar_id)
       IN  Step(None,
                [IdleProc EXCEPT !.pc = IF r.raised THEN "raised" ELSE "done",
                                 !.op = "disconnect", !.user = user_id,
                                 !.cal = calendar_id,
                                 !.was = Registered(Registry, user_id, calendar_id)],
                [ac |-> r.ac, cs |-> r.cs])

\* ---- broadcast_to_calendar ----------------------------------------------
\* (changed: the failed connections are not cleaned up)
CleanupUsers_none(reg, disconnected_users) ==
    [ac |-> reg.ac, cs |-> reg.cs, raised |-> FALSE]

\* the cleanup loop `for user_id, cal_id in disconnected_users`
RECURSIVE CleanupUsers(_, _)
CleanupUsers(reg, disconnected_users) ==
    IF disconnected_users = <<>> THEN [ac |-> reg.ac, cs |-> reg.cs, raised |-> FALSE]
    ELSE LET r == disconnect(reg, Head(disconnected_users)[1],
                             Head(disconnected_users)[2])
         IN  IF r.raised THEN r
             ELSE CleanupUsers([ac |-> r.ac, cs |-> r.cs], Tail(disconnected_users))

\* (changed: exclude_user is ignored)
SubscribersToReach_all(subscribers, exclude_user) == subscribers

\* `subscribers = ...copy()` less the excluded user
SubscribersToReach(subscribers, exclude_user) ==
    IF exclude_user # None THEN subscribers \ {exclude_user} ELSE subscribers

\* (changed: the loop does not look the subscriber up again; one who is no
\* longer registered is sent to all the same, on a channel that is not in
\* the registry)
BroadcastToCalendarLoopFrom_snapshotOnly(reg, p, pr) ==
    \/ \E user_id \in pr.rem :
           Step(p, [pr EXCEPT !.pc = "send", !.user = user_id,
                       !.ws = IF Registered(reg, user_id, pr.cal)
                              THEN Get(reg.ac[user_id], pr.cal) ELSE None,
                       !.rem = pr.rem \ {user_id}],
                reg)
    \/ /\ pr.rem = {}
       /\ LET r == CleanupUsers(reg, pr.disc)
          IN  Step(p, [pr EXCEPT !.pc = IF r.raised THEN "raised" ELSE "done",
                          !.user = None, !.ws = None, !.rem = {}],
                   [ac |-> r.ac, cs |-> r.cs])

\* The for loop over `subscribers` from where it stands to its next await or
\* to the return.  A set is walked in an order the code does not choose: the
\* loop may pass any of the members that are no longer registered (skipped)
\* before it comes to one that is, and it ends only when none is left.
BroadcastToCalendarLoopFrom(reg, p, pr) ==
    LET sendable == {u \in pr.rem : Registered(reg, u, pr.cal)}
    IN  \/ \E user_id \in sendable, skipped \in SUBSET (pr.rem \ sendable) :
               Step(p, [pr EXCEPT !.pc = "send", !.user = user_id,
                           !.ws = Get(reg.ac[user_id], pr.cal),
                           !.rem = pr.rem \ (skipped \cup {user_id})],
                    reg)
        \/ /\ sendable = {}
           /\ LET r == CleanupUsers(reg, pr.disc)
              IN  Step(p, [pr EXCEPT !.pc = IF r.raised THEN "raised" ELSE "done",
                              !.user = None, !.ws = None, !.rem = {}],
                       [ac |-> r.ac, cs |-> r.cs])

\* ... resumed after an await: the registry is the one of the current state
BroadcastToCalendarLoop(p, pr) == BroadcastToCalendarLoopFrom(Registry, p, pr)

\* (changed: no early return; the subscript of a missing calendar raises)
BroadcastToCalendarCall_noEarlyReturn(p, calendar_id, exclude_user) ==
    /\ NewCoroutine(p)
    /\ LET pr == [IdleProc EXCEPT !.op = "broadcast_to_calendar",
                                  !.cal = calendar_id, !.excl = exclude_user]
       IN  IF calendar_id \notin DOMAIN calendar_subscribers
           THEN Step(p, [pr EXCEPT !.pc = "raised"], Registry)
           ELSE LET subscribers == calendar_subscribers[calendar_id]
                IN  BroadcastToCalendarLoop(p,
                        [pr EXCEPT !.subs0 = subscribers,
                                   !.stayed = subscribers,
                                   !.rem = SubscribersToReach(subscribers,
                                                              exclude_user)])

\* broadcast_to_calendar() from the call to its first await or to the return,
\* called in the same atomic segment in which the caller has brought the
\* registry to reg
BroadcastToCalendarFrom(reg, p, calendar_id, exclude_user) ==
    /\ NewCoroutine(p)
    /\ LET pr == [IdleProc EXCEPT !.op = "broadcast_to_calendar",
                                  !.cal = calendar_id, !.excl = exclude_user]
       IN  IF calendar_id \notin DOMAIN reg.cs
           THEN Step(p, [pr EXCEPT !.pc = "done"], reg)
           ELSE LET subscribers == reg.cs[calendar_id]
                IN  BroadcastToCalendarLoopFrom(reg, p,
                        [pr EXCEPT !.subs0 = subscribers,
                                   !.stayed = subscribers,
                                   !.rem = SubscribersToReach(subscribers,
                                                              exclude_user)])

\* ... called on the registry of the current state
BroadcastToCalendarCall(p, calendar_id, exclude_user) ==
    /\ p \in Procs
    /\ BroadcastToCalendarFrom(Registry, p, calendar_id, exclude_user)

\* (changed: every user sent to is noted for the cleanup, failed or not)
BroadcastToCalendarSent_dropsAll(p, ok) ==
    /\ procs[p].pc = "send"
    /\ procs[p].op = "broadcast_to_calendar"
    /\ LET pr == procs[p]
           att == [user |-> pr.user, cal |-> pr.cal, ws |-> pr.ws, ok |-> ok]
       IN  BroadcastToCalendarLoop(p,
               [pr EXCEPT !.log = Append(pr.log, att),
                          !.disc = Append(pr.disc, <<pr.user, pr.cal>>)])

\* (changed: a user whose send failed is tried again)
BroadcastToCalendarSent_retry(p, ok) ==
    /\ procs[p].pc = "send"
    /\ procs[p].op = "broadcast_to_calendar"
    /\ LET pr == procs[p]
           att == [user |-> pr.user, cal |-> pr.cal, ws |-> pr.ws, ok |-> ok]
       IN  BroadcastToCalendarLoop(p,
               [pr EXCEPT !.log = Append(pr.log, att),
                          !.rem = IF ok \/ Len(pr.log) >= Cardinality(pr.subs0)
                                  THEN pr.rem ELSE pr.rem \cup {pr.user},
                          !.disc = IF ok THEN pr.disc
                                   ELSE Append(pr.disc, <<pr.user, pr.cal>>)])

\* (changed: a failed send is cleaned up at once, inside the loop)
BroadcastToCalendarSent_eagerCleanup(p, ok) ==
    /\ procs[p].pc = "send"
    /\ procs[p].op = "broadcast_to_calendar"
    /\ LET pr == procs[p]
           att == [user |-> pr.user, cal |-> pr.cal, ws |-> pr.ws, ok |-> ok]
           r == disconnect(Registry, pr.user, pr.cal)
       IN  BroadcastToCalendarLoopFrom(
               IF ok THEN Registry ELSE [ac |-> r.ac, cs |-> r.cs], p,
               [pr EXCEPT !.log = Append(pr.log, att)])

\* `await websocket.send_json(message)` returned (ok) or raised (~ok); the
\* failure is caught and noted, and the loop goes on
BroadcastToCalendarSent(p, ok) ==
    /\ procs[p].pc = "send"
    /\ procs[p].op = "broadcast_to_calendar"
    /\ LET pr == procs[p]
           att == [user |-> pr.user, cal |-> pr.cal, ws |-> pr.ws, ok |-> ok]
       IN  BroadcastToCalendarLoop(p,
               [pr EXCEPT !.log = Append(pr.log, att),
                          !.disc = IF ok THEN pr.disc
                                   ELSE Append(pr.disc, <<pr.user, pr.cal>>)])

\* ---- broadcast_to_user ---------------------------------------------------
\* the cleanup loop `for calendar_id in disconnected_calendars`
RECURSIVE CleanupCalendars(_, _, _)
CleanupCalendars(reg, user_id, disconnected_calendars) ==
    IF disconnected_calendars = <<>>
    THEN [ac |-> reg.ac, cs |-> reg.cs, raised |-> FALSE]
    ELSE LET r == disconnect(reg, user_id, Head(disconnected_calendars))
         IN  IF r.raised THEN r
             ELSE CleanupCalendars([ac |-> r.ac, cs |-> r.cs], user_id,
                                   Tail(disconnected_calendars))

\* next() of the dict item iterator: the size check comes first on every call,
\* also on the one that would end the loop; an entry found after as many items
\* were handed out as the dict had is "keys changed during iteration".
DictNext(pr, reg) ==
    LET size == IF pr.it_att THEN Len(reg.ac[pr.user]) ELSE 0
    IN  IF pr.it_used # size THEN "RuntimeError"
        ELSE IF pr.it_rem = <<>> THEN "StopIteration"
        ELSE IF pr.it_len = 0 THEN "RuntimeError"
        ELSE "item"

\* The for loop over `.items()` from where it stands to its next await, to the
\* return, or to the RuntimeError of the iterator, which nothing catches.
BroadcastToUserLoop(p, pr) ==
    LET reg == Registry
        nxt == DictNext(pr, reg)
    IN  \/ /\ nxt = "item"
           /\ Step(p, [pr EXCEPT !.pc = "send", !.cal = Head(pr.it_rem),
                          !.ws = Get(reg.ac[pr.user], Head(pr.it_rem)),
                          !.it_rem = Tail(pr.it_rem), !.it_len = pr.it_len - 1],
                   reg)
        \/ /\ nxt = "RuntimeError"
           /\ Step(p, [pr EXCEPT !.pc = "raised", !.cal = None, !.ws = None], reg)
        \/ /\ nxt = "StopIteration"
           /\ LET r == CleanupCalendars(reg, pr.user, pr.disc)
              IN  Step(p, [pr EXCEPT !.pc = IF r.raised THEN "raised" ELSE "done",
                              !.cal = None, !.ws = None],
                       [ac |-> r.ac, cs |-> r.cs])

\* broadcast_to_user() from the call to its first await or to the return
BroadcastToUserCall(p, user_id) ==
    /\ NewCoroutine(p)
    /\ LET pr == [IdleProc EXCEPT !.op = "broadcast_to_user", !.user = user_id]
       IN  IF user_id \notin DOMAIN active_connections
           THEN Step(p, [pr EXCEPT !.pc = "done"], Registry)
           ELSE LET d == active_connections[user_id]
                IN  BroadcastToUserLoop(p,
                        [pr EXCEPT !.it_rem = [i \in 1..Len(d) |-> d[i].k],
                                   !.it_used = Len(d), !.it_len = Len(d),
                                   !.it_att = TRUE,
                                   !.held0 = Items(d), !.held = Items(d)])

\* `await websocket.send_json(message)` returned (ok) or raised (~ok)
BroadcastToUserSent(p, ok) ==
    /\ procs[p].pc = "send"
    /\ procs[p].op = "broadcast_to_user"
    /\ LET pr == procs[p]
           att == [user |-> pr.user, cal |-> pr.cal, ws |-> pr.ws, ok |-> ok]
       IN  BroadcastToUserLoop(p,
               [pr EXCEPT !.log = Append(pr.log, att),
                          !.disc = IF ok THEN pr.disc
                                   ELSE Append(pr.disc, pr.cal)])

\* The manager under any callers: every method may be called at any time.
\* No request handler of the application is modelled here.
\* a step in which no request handler moves
NoEndpointStep ==
    /\ endpoints' = endpoints
    /\ finished' = IdleEndpoint

Next ==
    \/ \E p \in Procs, w \in WebSockets, u \in Users, c \in Calendars :
           ConnectCall(p, w, u, c) /\ NoEndpointStep
    \/ \E p \in Procs : ConnectAccepted(p) /\ NoEndpointStep
    \/ \E p \in Procs : ConnectAcceptFailed(p) /\ NoEndpointStep
    \/ \E u \in Users, c \in Calendars : Disconnect(u, c) /\ NoEndpointStep
    \/ \E p \in Procs, c \in Calendars, x \in Users \cup {None} :
           BroadcastToCalendarCall(p, c, x) /\ NoEndpointStep
    \/ \E p \in Procs, ok \in BOOLEAN :
           BroadcastToCalendarSent(p, ok) /\ NoEndpointStep
    \/ \E p \in Procs, u \in Users : BroadcastToUserCall(p, u) /\ NoEndpointStep
    \/ \E p \in Procs, ok \in BOOLEAN :
           BroadcastToUserSent(p, ok) /\ NoEndpointStep

Spec == Init /\ [][Next]_vars

\* ==== the application: the WebSocket endpoint and the REST endpoints =======
\* The database is not modelled: whether the token decodes and whether
\* check_access finds the calendar for the user are inputs of a request, as is
\* the success of the mutation of a REST request.
AuthOutcomes == {"ok", "invalid_token", "no_access"}
\* the close code of both rejections
PolicyViolation == 1008

\* the registry as the step under way leaves it
RegistryAfter == [ac |-> active_connections', cs |-> calendar_subscribers']

\* Which free handler slot a new request takes makes no difference.
NewEndpoint(h) ==
    /\ endpoints[h].pc = "idle"
    /\ \A g \in Endpoints : g < h => endpoints[g].pc # "idle"

\* the handler is back in `await websocket.receive_json()`
Receiving(er) ==
    [er EXCEPT !.pc = "receive", !.proc = None, !.recv = "none",
               !.msg = NoMessage, !.calls = 0, !.sent = <<>>]

\* Handler h ends an atomic segment with its record er.
EndpointStep(h, er) ==
    /\ endpoints' = [endpoints EXCEPT ![h] =
                        IF er.pc \in {"rejected", "ended"} THEN IdleEndpoint
                        ELSE IF er.pc = "handled" THEN Receiving(er)
                        ELSE er]
    /\ finished' = IF er.pc \in {"rejected", "ended", "handled"} THEN er
                   ELSE IdleEndpoint

\* a segment of a handler in which no manager method runs
NoManagerCall == Step(None, IdleProc, Registry)

\* ---- websocket_endpoint --------------------------------------------------
\* (changed: the access check is left out)
Authorized_tokenOnly(auth) == auth # "invalid_token"

\* the token decoded to a user and check_access returned True
Authorized(auth) == auth = "ok"

\* the token does not decode (decode_token returns None and `payload.get`
\* raises, which is caught) or the user has no access: close, return
WsRejected(h, websocket, auth) ==
    /\ NewEndpoint(h)
    /\ NewWebSocket(websocket)
    /\ auth \in AuthOutcomes
    /\ ~Authorized(auth)
    /\ NoManagerCall
    /\ EndpointStep(h, [IdleEndpoint EXCEPT !.pc = "rejected",
                           !.kind = "websocket", !.auth = auth,
                           !.ws = websocket, !.code = PolicyViolation])

\* ... or both checks pass: `await manager.connect(...)`, up to its accept()
WsConnect(h, websocket, user_id, calendar_id, auth) ==
    /\ NewEndpoint(h)
    /\ Authorized(auth)
    /\ \E p \in Procs :
          /\ ConnectCall(p, websocket, user_id, calendar_id)
          /\ EndpointStep(h, [IdleEndpoint EXCEPT !.pc = "connect",
                                 !.kind = "websocket", !.auth = auth,
                                 !.user = user_id, !.cal = calendar_id,
                                 !.ws = websocket, !.proc = p])

\* the welcome message, with the subscriber count read from the registry reg
Established(reg, calendar_id) ==
    Message(<<"connection", "established">>, {"type", "data"},
            get_calendar_subscriber_count(reg, calendar_id))

\* (changed: the count is read before connect() has registered the pair)
WsAccepted_countBefore(h) ==
    /\ endpoints[h].pc = "connect"
    /\ ConnectAccepted(endpoints[h].proc)
    /\ EndpointStep(h, [endpoints[h] EXCEPT !.pc = "welcome", !.proc = None,
                           !.connected = TRUE, !.recv = "open",
                           !.msg = Established(Registry, endpoints[h].cal)])

\* connect() registers and returns; the handler builds the welcome message
\* and starts to send it
WsAccepted(h) ==
    /\ endpoints[h].pc = "connect"
    /\ ConnectAccepted(endpoints[h].proc)
    /\ EndpointStep(h, [endpoints[h] EXCEPT !.pc = "welcome", !.proc = None,
                           !.connected = TRUE, !.recv = "open",
                           !.msg = Established(RegistryAfter, endpoints[h].cal)])

\* connect() raises out of accept(): the handler is not yet in its try block
WsAcceptFailed(h) ==
    /\ endpoints[h].pc = "connect"
    /\ ConnectAcceptFailed(endpoints[h].proc)
    /\ EndpointStep(h, [endpoints[h] EXCEPT !.pc = "ended", !.proc = None])

\* the send of the welcome message returned (ok) or raised (~ok); it stands
\* before the try block, so what it raises leaves the handler at once
WsWelcomeSent(h, ok) ==
    /\ endpoints[h].pc = "welcome"
    /\ NoManagerCall
    /\ LET er == [endpoints[h] EXCEPT
                     !.sent = Append(@, [msg |-> endpoints[h].msg,
                                         ws |-> endpoints[h].ws, ok |-> ok])]
       IN  EndpointStep(h, [er EXCEPT !.pc = IF ok THEN "handled" ELSE "ended"])

\* (changed: on WebSocketDisconnect the pair is not deregistered before the
\* broadcast is made)
WsExcept_keepsPair(h, er, exc) ==
    LET msg == Message(<<"user", "disconnected">>, {"type", "data"},
                       get_calendar_subscriber_count(Registry, er.cal))
    IN  \/ /\ exc = "WebSocketDisconnect"
           /\ \E p \in Procs :
                 /\ BroadcastToCalendarFrom(Registry, p, er.cal, None)
                 /\ EndpointStep(h, [er EXCEPT
                        !.pc = IF procs'[p].pc = "idle" THEN "ended"
                               ELSE "goodbye",
                        !.proc = IF procs'[p].pc = "idle" THEN None ELSE p,
                        !.disconnected = TRUE, !.msg = msg,
                        !.calls = er.calls + 1])
        \/ /\ exc = "Exception"
           /\ Disconnect(er.user, er.cal)
           /\ EndpointStep(h, [er EXCEPT !.pc = "ended", !.disconnected = TRUE])
        \/ /\ exc = "CancelledError"
           /\ NoManagerCall
           /\ EndpointStep(h, [er EXCEPT !.pc = "ended"])

\* What the two except clauses do with what was raised inside the try block:
\* WebSocketDisconnect: disconnect, then broadcast user:disconnected with the
\* count left;  any other Exception: disconnect;  CancelledError is not an
\* Exception and leaves the handler as it is.
WsExcept(h, er, exc) ==
    LET r == disconnect(Registry, er.user, er.cal)
        reg == [ac |-> r.ac, cs |-> r.cs]
        msg == Message(<<"user", "disconnected">>, {"type", "data"},
                       get_calendar_subscriber_count(reg, er.cal))
    IN  \/ /\ exc = "WebSocketDisconnect"
           /\ \E p \in Procs :
                 /\ BroadcastToCalendarFrom(reg, p, er.cal, None)
                 /\ EndpointStep(h, [er EXCEPT
                        !.pc = IF procs'[p].pc = "idle" THEN "ended"
                               ELSE "goodbye",
                        !.proc = IF procs'[p].pc = "idle" THEN None ELSE p,
                        !.disconnected = TRUE, !.msg = msg,
                        !.calls = er.calls + 1])
        \/ /\ exc = "Exception"
           /\ Disconnect(er.user, er.cal)
           /\ EndpointStep(h, [er EXCEPT !.pc = "ended", !.disconnected = TRUE])
        \/ /\ exc = "CancelledError"
           /\ NoManagerCall
           /\ EndpointStep(h, [er EXCEPT !.pc = "ended"])

Exceptions == {"WebSocketDisconnect", "Exception", "CancelledError"}

\* receive_json() raises: the client closed, the frame is not JSON, or the
\* task of the handler is cancelled
WsReceiveRaised(h, exc) ==
    /\ endpoints[h].pc = "receive"
    /\ WsExcept(h, endpoints[h], exc)

\* {"type": "ping"}: start to send the pong
WsPing(h) ==
    /\ endpoints[h].pc = "receive"
    /\ NoManagerCall
    /\ EndpointStep(h, [endpoints[h] EXCEPT !.pc = "pong", !.recv = "ping",
                           !.msg = Message(<<"pong">>, {"type"}, None)])

\* (changed: a pong that was sent also ends the connection)
WsPongSent_disconnects(h, exc) ==
    /\ endpoints[h].pc = "pong"
    /\ LET er == [endpoints[h] EXCEPT
                     !.sent = Append(@, [msg |-> endpoints[h].msg,
                                         ws |-> endpoints[h].ws,
                                         ok |-> exc = "none"])]
       IN  WsExcept(h, er, IF exc = "none" THEN "Exception" ELSE exc)

\* the send of the pong returned (exc = "none") or raised
WsPongSent(h, exc) ==
    /\ endpoints[h].pc = "pong"
    /\ LET er == [endpoints[h] EXCEPT
                     !.sent = Append(@, [msg |-> endpoints[h].msg,
                                         ws |-> endpoints[h].ws,
                                         ok |-> exc = "none"])]
       IN  IF exc = "none"
           THEN NoManagerCall /\ EndpointStep(h, [er EXCEPT !.pc = "handled"])
           ELSE WsExcept(h, er, exc)

\* the message a typing or cursor message is passed on as
ControlMessage(message_type) ==
    Message(<<"user", message_type>>, {"type", "data"}, None)

\* (changed: the sender is not excluded)
WsControl_noExclude(h, message_type) ==
    /\ endpoints[h].pc = "receive"
    /\ message_type \in {"typing", "cursor"}
    /\ \E p \in Procs :
          /\ BroadcastToCalendarCall(p, endpoints[h].cal, None)
          /\ EndpointStep(h, [endpoints[h] EXCEPT
                 !.pc = IF procs'[p].pc = "idle" THEN "handled" ELSE "broadcast",
                 !.proc = IF procs'[p].pc = "idle" THEN None ELSE p,
                 !.recv = message_type, !.msg = ControlMessage(message_type),
                 !.calls = endpoints[h].calls + 1])

\* {"type": "typing"} and {"type": "cursor"}: broadcast to the calendar, the
\* sender excluded, up to the first await of the broadcast or to its return
WsControl(h, message_type) ==
    /\ endpoints[h].pc = "receive"
    /\ message_type \in {"typing", "cursor"}
    /\ \E p \in Procs :
          /\ BroadcastToCalendarCall(p, endpoints[h].cal, endpoints[h].user)
          /\ EndpointStep(h, [endpoints[h] EXCEPT
                 !.pc = IF procs'[p].pc = "idle" THEN "handled" ELSE "broadcast",
                 !.proc = IF procs'[p].pc = "idle" THEN None ELSE p,
                 !.recv = message_type, !.msg = ControlMessage(message_type),
                 !.calls = endpoints[h].calls + 1])

\* a send of the broadcast the handler waits for returned or raised; the
\* broadcast goes on, or it returns and the handler with it: to its receive
\* loop, or out of the except clause or the REST endpoint
EndpointBroadcastSent(h, ok) ==
    /\ endpoints[h].pc \in {"broadcast", "goodbye", "rest"}
    /\ BroadcastToCalendarSent(endpoints[h].proc, ok)
    /\ EndpointStep(h,
           IF procs'[endpoints[h].proc].pc # "idle" THEN endpoints[h]
           ELSE [endpoints[h] EXCEPT
                    !.pc = IF endpoints[h].pc = "broadcast" THEN "handled"
                           ELSE "ended",
                    !.proc = None])

\* ---- the REST endpoints --------------------------------------------------
EntryEndpoints ==
    {"create_entry", "update_entry", "delete_entry", "toggle_complete"}
TaskEndpoints ==
    {"create_task", "update_task", "delete_task", "complete_task",
     "reopen_task", "archive_task"}
RestEndpoints == EntryEndpoints \cup TaskEndpoints

\* (changed: the user who made the change is excluded from the broadcast)
RestExclude_originator(endpoint, current_user) == current_user

\* the exclude_user argument of the broadcast of a REST endpoint: none passes
\* one
RestExclude(endpoint, current_user) == None

\* The message an endpoint hands to manager.broadcast_to_calendar after its
\* mutation went through; NoMessage: the endpoint makes no broadcast.
RestMessage(endpoint) ==
    CASE endpoint = "create_entry" ->
             Message(<<"entry", "created">>, {"type", "data"}, None)
      [] endpoint = "update_entry" ->
             Message(<<"entry", "updated">>, {"type", "data"}, None)
      [] endpoint = "delete_entry" ->
             Message(<<"entry", "deleted">>, {"type", "data"}, None)
      [] endpoint = "toggle_complete" ->
             Message(<<"entry", "completed">>, {"type", "data"}, None)
      [] endpoint = "delete_task" ->
             Message(<<"task", "deleted">>, {"type", "data"}, None)
      [] OTHER -> NoMessage

\* the request is refused (401, 403, 404) or the mutation raises: the handler
\* raises before it comes to a broadcast
RestFailed(h, endpoint) ==
    /\ NewEndpoint(h)
    /\ endpoint \in RestEndpoints
    /\ NoManagerCall
    /\ EndpointStep(h, [IdleEndpoint EXCEPT !.pc = "ended", !.kind = endpoint,
                                            !.ok = FALSE])

\* the mutation went through and the endpoint has no broadcast: it returns
RestReturned(h, endpoint) ==
    /\ NewEndpoint(h)
    /\ endpoint \in RestEndpoints
    /\ RestMessage(endpoint) = NoMessage
    /\ NoManagerCall
    /\ EndpointStep(h, [IdleEndpoint EXCEPT !.pc = "ended", !.kind = endpoint])

\* the mutation went through and the endpoint broadcasts it
RestBroadcast(h, endpoint, current_user, calendar_id) ==
    /\ NewEndpoint(h)
    /\ RestMessage(endpoint) # NoMessage
    /\ \E p \in Procs :
          /\ BroadcastToCalendarCall(p, calendar_id,
                                     RestExclude(endpoint, current_user))
          /\ EndpointStep(h, [IdleEndpoint EXCEPT
                 !.pc = IF procs'[p].pc = "idle" THEN "ended" ELSE "rest",
                 !.proc = IF procs'[p].pc = "idle" THEN None ELSE p,
                 !.kind = endpoint, !.user = current_user, !.cal = calendar_id,
                 !.msg = RestMessage(endpoint), !.calls = 1])

\* The WebSocket endpoint: client connections come, talk and go.
NextApp ==
    \/ \E h \in Endpoints, w \in WebSockets, auth \in AuthOutcomes :
          WsRejected(h, w, auth)
    \/ \E h \in Endpoints, w \in WebSockets, u \in Users, c \in Calendars,
          auth \in AuthOutcomes : WsConnect(h, w, u, c, auth)
    \/ \E h \in Endpoints : WsAccepted(h)
    \/ \E h \in Endpoints : WsAcceptFailed(h)
    \/ \E h \in Endpoints, ok \in BOOLEAN : WsWelcomeSent(h, ok)
    \/ \E h \in Endpoints, exc \in Exceptions : WsReceiveRaised(h, exc)
    \/ \E h \in Endpoints : WsPing(h)
    \/ \E h \in Endpoints, exc \in Exceptions \cup {"none"} : WsPongSent(h, exc)
    \/ \E h \in Endpoints, m \in {"typing", "cursor"} : WsControl(h, m)
    \/ \E h \in Endpoints, ok \in BOOLEAN : EndpointBroadcastSent(h, ok)

SpecApp == Init /\ [][NextApp]_vars

\* The REST endpoints, beside connections that are registered and dropped.
NextRest ==
    \/ \E p \in Procs, w \in WebSockets, u \in Users, c \in Calendars :
           ConnectCall(p, w, u, c) /\ NoEndpointStep
    \/ \E p \in Procs : ConnectAccepted(p) /\ NoEndpointStep
    \/ \E u \in Users, c \in Calendars : Disconnect(u, c) /\ NoEndpointStep
    \/ \E h \in Requests, e \in RestEndpoints : RestFailed(h, e)
    \/ \E h \in Requests, e \in RestEndpoints : RestReturned(h, e)
    \/ \E h \in Requests, e \in RestEndpoints, u \in Users, c \in Calendars :
          RestBroadcast(h, e, u, c)
    \/ \E h \in Endpoints, ok \in BOOLEAN : EndpointBroadcastSent(h, ok)

SpecRest == Init /\ [][NextRest]_vars

\* ==== the properties ======================================================
Attempted(r) == {r.log[i].user : i \in 1..Len(r.log)}
Delivered(r) == {r.log[i].user : i \in {j \in 1..Len(r.log) : r.log[j].ok}}
Failed(r) == {r.log[i].user : i \in {j \in 1..Len(r.log) : ~r.log[j].ok}}
SubscribersNow(calendar_id) ==
    IF calendar_id \in DOMAIN calendar_subscribers
    THEN calendar_subscribers[calendar_id] ELSE {}
\* the records of all calls: those under way and the one that just ended
Calls == {procs[p] : p \in Procs} \cup {returned}

\* C1 (I2): in every state, also those seen while a connect() is suspended in
\* accept() or a broadcast in send_json(), a user is in a calendar's subscriber
\* set exactly when the connection map holds a channel for the pair.
C1_SubscribersMatchConnections ==
    \A u \in Users, c \in Calendars :
        (c \in DOMAIN calendar_subscribers /\ u \in calendar_subscribers[c])
        <=> Registered(Registry, u, c)

\* a connect() suspended in accept() beside a broadcast that is suspended in
\* a send and has had the registry changed under it, with a pair registered
C1_Witness ==
    /\ \E p \in Procs : procs[p].pc = "accept"
    /\ \E p \in Procs : procs[p].pc = "send" /\ ~procs[p].clean
    /\ DOMAIN calendar_subscribers # {}

\* C2 (I1, P6): no map holds an empty container, so a user without connections
\* has count 0 and is in neither map.
C2_NoEmptyContainers ==
    /\ \A c \in DOMAIN calendar_subscribers : calendar_subscribers[c] # {}
    /\ \A u \in DOMAIN active_connections : active_connections[u] # <<>>
    /\ \A u \in Users :
          (\A c \in Calendars : ~Registered(Registry, u, c))
          => /\ get_user_connections(Registry, u) = 0
             /\ u \notin DOMAIN active_connections
             /\ \A c \in DOMAIN calendar_subscribers :
                    u \notin calendar_subscribers[c]

\* the cleanup of a broadcast has just removed the last connection of a user
\* whose send failed
C2_Witness ==
    /\ returned.op \in {"broadcast_to_calendar", "broadcast_to_user"}
    /\ \E u \in Failed(returned) : u \notin DOMAIN active_connections

\* C3 (P4): when broadcast_to_calendar returns and nobody else changed the
\* registry meanwhile, every subscriber but the excluded one was sent to once,
\* and the subscriber set is the one at the call less the users whose send
\* failed.
C3_PartialFailureIsolation ==
    (returned.op = "broadcast_to_calendar" /\ returned.clean)
    => /\ returned.pc = "done"
       /\ Attempted(returned) = returned.subs0 \ {returned.excl}
       /\ Len(returned.log) = Cardinality(Attempted(returned))
       /\ Delivered(returned) =
              (returned.subs0 \ {returned.excl}) \ Failed(returned)
       /\ SubscribersNow(returned.cal) = returned.subs0 \ Failed(returned)
       /\ get_calendar_subscriber_count(Registry, returned.cal) =
              Cardinality(returned.subs0) - Cardinality(Failed(returned))

\* an undisturbed broadcast returned after one send failed and another did not
C3_Witness ==
    /\ returned.op = "broadcast_to_calendar" /\ returned.clean
    /\ Failed(returned) # {} /\ Delivered(returned) # {}

\* also: every send of an undisturbed broadcast failed, the count is 0
C3_WitnessAllFail ==
    /\ returned.op = "broadcast_to_calendar" /\ returned.clean
    /\ Failed(returned) = returned.subs0 /\ returned.subs0 # {}
    /\ get_calendar_subscriber_count(Registry, returned.cal) = 0

\* C4: broadcast_to_calendar never raises, whatever fails and whatever runs
\* while it is suspended, and its loop is over after at most one send per
\* member of its snapshot.
C4_BroadcastToCalendarReturns ==
    /\ returned.op = "broadcast_to_calendar" => returned.pc = "done"
    /\ \A p \in Procs :
          (procs[p].op = "broadcast_to_calendar" /\ procs[p].pc = "send")
          => Len(procs[p].log) + 1 + Cardinality(procs[p].rem)
                 <= Cardinality(procs[p].subs0)

\* a broadcast returned after a failed send and after others changed the
\* registry under it
C4_Witness ==
    /\ returned.op = "broadcast_to_calendar" /\ returned.pc = "done"
    /\ ~returned.clean /\ Failed(returned) # {}

\* C5: broadcast_to_user never raises, also when a connect or disconnect of
\* the same user runs while one of its sends is suspended.
C5_BroadcastToUserReturns ==
    returned.op = "broadcast_to_user" => returned.pc = "done"

\* C6 (P3): a broadcast with exclude_user never sends to that user and never
\* notes it for cleanup; undisturbed, it reaches every other subscriber and
\* leaves the excluded user registered.
C6_Exclusion ==
    \A r \in Calls :
        (r.op = "broadcast_to_calendar" /\ r.excl # None)
        => /\ r.excl \notin Attempted(r)
           /\ r.pc = "send" => r.user # r.excl
           /\ \A i \in 1..Len(r.disc) : r.disc[i][1] # r.excl
           /\ (r.pc = "done" /\ r.clean)
              => /\ Attempted(r) = r.subs0 \ {r.excl}
                 /\ r.excl \in r.subs0
                    => /\ r.excl \in SubscribersNow(r.cal)
                       /\ Registered(Registry, r.excl, r.cal)

\* an undisturbed broadcast that excluded one of the subscribers and sent to
\* another has returned
C6_Witness ==
    /\ returned.op = "broadcast_to_calendar" /\ returned.clean
    /\ returned.excl \in returned.subs0
    /\ Attempted(returned) # {}

\* C7 (P1): after connect() the calendar has at least one subscriber, the
\* user among them; and a connect() for a pair that is already registered
\* leaves both counts as they were.
C7_ConnectCountsOnce ==
    (returned.op = "connect" /\ returned.pc = "done")
    => /\ get_calendar_subscriber_count(Registry, returned.cal) >= 1
       /\ returned.user \in SubscribersNow(returned.cal)
       /\ get_user_connections(Registry, returned.user) >= 1
       /\ returned.was
          => /\ get_calendar_subscriber_count(Registry, returned.cal)
                  = Cardinality(returned.subs0)
             /\ get_user_connections(Registry, returned.user)
                  = Cardinality(returned.held0)

\* a connect() for an already registered pair has returned
C7_Witness ==
    returned.op = "connect" /\ returned.pc = "done" /\ returned.was

\* C8 (P2): disconnect() never raises; on a pair that is not registered it
\* changes nothing; and a second disconnect() of the same pair changes nothing.
C8_DisconnectIdempotent ==
    /\ returned.op = "disconnect" => returned.pc = "done"
    /\ \A u \in Users, c \in Calendars :
          LET once == disconnect(Registry, u, c)
              twice == disconnect([ac |-> once.ac, cs |-> once.cs], u, c)
          IN  /\ ~once.raised /\ ~twice.raised
              /\ twice.ac = once.ac /\ twice.cs = once.cs
              /\ ~Registered(Registry, u, c)
                 => once.ac = active_connections /\ once.cs = calendar_subscribers

\* disconnect() has run on a pair that was not registered while the user held
\* another connection and the calendar had another subscriber
C8_Witness ==
    /\ returned.op = "disconnect" /\ ~returned.was
    /\ returned.user \in DOMAIN active_connections
    /\ returned.cal \in DOMAIN calendar_subscribers

\* C9 (P5): broadcast_to_calendar on a calendar without subscribers sends
\* nothing, returns normally and leaves the registry and every other call as
\* they were.
C9_EmptyBroadcast ==
    [][(returned'.op = "broadcast_to_calendar" /\ returned'.subs0 = {})
       => /\ returned'.pc = "done"
          /\ returned'.log = <<>> /\ returned'.disc = <<>>
          /\ UNCHANGED <<active_connections, calendar_subscribers, procs>>]_vars

\* a broadcast to a calendar without subscribers has returned while the other
\* calendar had some
C9_Witness ==
    /\ returned.op = "broadcast_to_calendar" /\ returned.subs0 = {}
    /\ DOMAIN calendar_subscribers # {}

\* C10 (P7): when broadcast_to_user ends, every connection the user held at
\* the call (here: and that stayed registered all through it) was sent the
\* message exactly once.
C10_OneSendPerConnection ==
    returned.op = "broadcast_to_user"
    => \A e \in returned.held :
           Cardinality({i \in 1..Len(returned.log) :
                           returned.log[i].cal = e.k /\ returned.log[i].ws = e.v})
               = 1

\* the pairs a channel is registered under
RegisteredUnder(websocket) ==
    {<<u, c>> \in Users \X Calendars :
        /\ u \in DOMAIN active_connections
        /\ [k |-> c, v |-> websocket] \in Items(active_connections[u])}
\* the channels a call has sent on or is sending on
ChannelsOf(r) ==
    {r.log[i].ws : i \in 1..Len(r.log)}
    \cup (IF r.pc = "send" THEN {r.ws} ELSE {})

\* C11: under every interleaving, broadcast_to_calendar(cal) sends only on
\* channels of subscribers' connections to cal, never on a channel registered
\* under another calendar, and broadcast_to_user(u) sends only on channels of
\* u, never on a channel registered to another user.
C11_BroadcastScope ==
    \A r \in Calls :
        /\ r.op = "broadcast_to_calendar"
           => /\ \A i \in 1..Len(r.log) : r.log[i].cal = r.cal
              /\ \A w \in ChannelsOf(r) :
                     \A uc \in RegisteredUnder(w) : uc[2] = r.cal
        /\ r.op = "broadcast_to_user"
           => /\ \A i \in 1..Len(r.log) : r.log[i].user = r.user
              /\ \A w \in ChannelsOf(r) :
                     \A uc \in RegisteredUnder(w) : uc[1] = r.user
        /\ (r.pc = "send" /\ r.clean /\ r.log = <<>>)
           => RegisteredUnder(r.ws) = {<<r.user, r.cal>>}

\* a broadcast to a calendar is sending to a user who also holds a connection
\* to another calendar
C11_Witness ==
    \E p \in Procs :
        /\ procs[p].op = "broadcast_to_calendar" /\ procs[p].pc = "send"
        /\ get_user_connections(Registry, procs[p].user) >= 2
        /\ RegisteredUnder(procs[p].ws) = {<<procs[p].user, procs[p].cal>>}

\* C12: a REST mutation that went through has made exactly one call of
\* broadcast_to_calendar, for its calendar, when its handler returns, and one
\* that failed has made none.
C12_OneBroadcastPerMutation ==
    (finished.pc = "ended" /\ finished.kind \in RestEndpoints)
    => /\ finished.calls = IF finished.ok THEN 1 ELSE 0
       /\ finished.ok
          => /\ returned.op = "broadcast_to_calendar"
             /\ returned.cal = finished.cal

\* C13: a handler whose connect() went through never ends without having
\* called disconnect() for its pair, and never leaves its channel registered.
C13_HandlerDisconnects ==
    (finished.pc = "ended" /\ finished.kind = "websocket" /\ finished.connected)
    => /\ finished.disconnected
       /\ RegisteredUnder(finished.ws) = {}

\* C14: a connection whose token does not decode or whose user has no access
\* is closed with code 1008 in a step that calls no manager method and leaves
\* the registry and every call as they were; its channel is not registered
\* and no call sends on it; and no such connection ever gets further.
C14_RejectedBeforeConnect ==
    /\ [](\A h \in Endpoints :
             endpoints[h].kind = "websocket" => endpoints[h].auth = "ok")
    /\ [](finished.kind = "websocket" /\ finished.auth # "ok"
          => /\ finished.pc = "rejected"
             /\ finished.code = PolicyViolation
             /\ ~finished.connected
             /\ RegisteredUnder(finished.ws) = {}
             /\ \A r \in Calls : r.ws # finished.ws
                                 /\ finished.ws \notin ChannelsOf(r))
    /\ [][finished'.pc = "rejected"
          => UNCHANGED <<active_connections, calendar_subscribers, procs>>]_vars

\* a connection of a user without access has been turned away while a
\* calendar had a subscriber whose handler was waiting for its pong to be sent
C14_Witness ==
    /\ finished.pc = "rejected" /\ finished.auth = "no_access"
    /\ DOMAIN calendar_subscribers # {}
    /\ \E h \in Endpoints : endpoints[h].pc = "pong"

\* C15: in the step in which the handler's connect() registers the pair the
\* handler starts to send connection:established, with the subscriber count
\* of the calendar as that same step leaves the registry: at least 1, the
\* connecting user counted; and that message is the one send of the set-up,
\* sent on the new channel, and is never sent again.
C15_WelcomeCount ==
    /\ (returned.op = "connect" /\ returned.pc = "done")
       => \E h \in Endpoints :
             /\ endpoints[h].ws = returned.ws
             /\ endpoints[h].pc = "welcome" /\ endpoints[h].sent = <<>>
             /\ endpoints[h].msg.type = <<"connection", "established">>
             /\ endpoints[h].msg.subscribers =
                    Cardinality(SubscribersNow(endpoints[h].cal))
             /\ endpoints[h].msg.subscribers >= 1
             /\ endpoints[h].user \in SubscribersNow(endpoints[h].cal)
    /\ \A h \in Endpoints :
          endpoints[h].pc = "welcome"
          => endpoints[h].connected /\ endpoints[h].msg.subscribers >= 1
    /\ \A e \in {endpoints[h] : h \in Endpoints} \cup {finished} :
          LET welcomes == {i \in 1..Len(e.sent) :
                              e.sent[i].msg.type = <<"connection", "established">>}
          IN  /\ \A i \in welcomes : e.sent[i].ws = e.ws /\ e.recv = "open"
              /\ (e = finished /\ e.recv = "open") => Cardinality(welcomes) = 1

\* the welcome message of a second user's connection to a calendar: the count
\* is 2
C15_Witness ==
    /\ returned.op = "connect" /\ returned.pc = "done"
    /\ \E h \in Endpoints :
          /\ endpoints[h].pc = "welcome" /\ endpoints[h].ws = returned.ws
          /\ endpoints[h].msg.subscribers = 2

\* C16: when the handling of a typing or cursor message is over, the handler
\* has made one call broadcast_to_calendar(its calendar, user:typing or
\* user:cursor, exclude_user = its user) and no send of its own; that call
\* sent nothing to the user nor on the handler's channel, and, when nobody
\* else changed the registry meanwhile, sent once to every other subscriber.
C16_ControlBroadcast ==
    /\ (finished.pc = "handled" /\ finished.recv \in {"typing", "cursor"})
       => /\ finished.calls = 1 /\ finished.sent = <<>>
          /\ finished.msg.type = <<"user", finished.recv>>
          /\ returned.op = "broadcast_to_calendar" /\ returned.pc = "done"
          /\ returned.cal = finished.cal /\ returned.excl = finished.user
          /\ finished.user \notin Attempted(returned)
          /\ finished.ws \notin ChannelsOf(returned)
          /\ returned.clean
             => /\ Attempted(returned) = returned.subs0 \ {finished.user}
                /\ Len(returned.log) = Cardinality(Attempted(returned))
    /\ \A h \in Endpoints :
          endpoints[h].pc = "broadcast"
          => /\ endpoints[h].calls = 1
             /\ procs[endpoints[h].proc].op = "broadcast_to_calendar"
             /\ procs[endpoints[h].proc].cal = endpoints[h].cal
             /\ procs[endpoints[h].proc].excl = endpoints[h].user
             /\ procs[endpoints[h].proc].user # endpoints[h].user
             /\ endpoints[h].ws \notin ChannelsOf(procs[endpoints[h].proc])

\* a typing message of a subscriber has been passed on, undisturbed, to the
\* other subscriber of the calendar
C16_Witness ==
    /\ finished.pc = "handled" /\ finished.recv = "typing"
    /\ returned.clean /\ finished.user \in returned.subs0
    /\ Delivered(returned) # {}

\* C17: when the handling of a typing message is over and nobody else changed
\* the registry meanwhile, the message was sent on the channel of every other
\* connection that is open on the same calendar.
C17_TypingReachesOtherConnections ==
    (finished.pc = "handled" /\ finished.recv = "typing" /\ returned.clean)
    => \A g \in Endpoints :
           (/\ endpoints[g].pc = "receive"
            /\ endpoints[g].cal = finished.cal
            /\ endpoints[g].ws # finished.ws)
           => endpoints[g].ws \in ChannelsOf(returned)

C20_MessageParts ==
    \A e \in {endpoints[h] : h \in Endpoints} \cup {finished} :
        e.calls > 0
        => /\ Len(e.msg.type) = 2
           /\ {"type", "data", "timestamp"} \subseteq e.msg.parts

\* the step is one of the broadcast in slot p, and leaves it suspended in the
\* send it has just begun
BeginsSend(p) ==
    /\ procs'[p].pc = "send"
    /\ procs[p].pc = "idle" \/ procs'[p].log # procs[p].log
\* the step is the one in which a broadcast returns or raises
EndsBroadcast ==
    returned'.op \in {"broadcast_to_calendar", "broadcast_to_user"}

\* C21: a step of a broadcast that leaves it in a further send changes neither
\* map, however many of its sends have failed so far; what a broadcast
\* removes, it removes in the step in which it ends, after its last send.
C21_CleanupAfterFanOut ==
    [][\A p \in Procs :
           BeginsSend(p)
           => UNCHANGED <<active_connections, calendar_subscribers>>]_vars

\* a broadcast is in a further send after one of its sends failed, and the
\* user of the failed send is still registered
C21_Witness ==
    \E p \in Procs :
        /\ procs[p].op = "broadcast_to_calendar" /\ procs[p].pc = "send"
        /\ \E i \in 1..Len(procs[p].log) :
              /\ ~procs[p].log[i].ok
              /\ <<procs[p].log[i].user, procs[p].cal>>
                     \in RegisteredUnder(procs[p].log[i].ws)

\* the channels registered for a pair
ChannelsFor(user_id, calendar_id) ==
    {w \in WebSockets : <<user_id, calendar_id>> \in RegisteredUnder(w)}

\* C22: a pair has at most one channel; when connect() returns, the pair's one
\* channel is the new one, also when the pair was registered before; and
\* every send a broadcast begins for a pair goes to the channel registered
\* for it at that moment, so after a second connect() to the new channel and
\* never to the replaced one.
C22_ReplacedChannel ==
    /\ [](\A u \in Users, c \in Calendars : Cardinality(ChannelsFor(u, c)) <= 1)
    /\ []((returned.op = "connect" /\ returned.pc = "done")
          => /\ ChannelsFor(returned.user, returned.cal) = {returned.ws}
             /\ RegisteredUnder(returned.ws) = {<<returned.user, returned.cal>>})
    /\ [][\A p \in Procs :
             BeginsSend(p)
             => ChannelsFor(procs'[p].user, procs'[p].cal) = {procs'[p].ws}]_vars

\* a second connect() for a pair has returned while a broadcast is still
\* suspended in a send on the pair's first channel
C22_Witness ==
    /\ returned.op = "connect" /\ returned.pc = "done" /\ returned.was
    /\ \E p \in Procs :
          /\ procs[p].pc = "send" /\ procs[p].ws # returned.ws
          /\ procs[p].user = returned.user /\ procs[p].cal = returned.cal

\* the send attempts a call has made or is making to a user
AttemptsTo(r, user_id) ==
    Cardinality({i \in 1..Len(r.log) : r.log[i].user = user_id})
    + (IF r.pc = "send" /\ r.user = user_id THEN 1 ELSE 0)

\* C23: at every moment of every broadcast_to_calendar call, whatever else
\* runs meanwhile, no user has been sent to twice, failed or not, and only
\* users of the snapshot other than the excluded one are sent to; and when
\* the call ends, every such user who stayed registered for the calendar
\* all through the call was sent to exactly once.
C23_AtMostOnce ==
    \A r \in Calls :
        r.op = "broadcast_to_calendar"
        => /\ \A u \in Users : AttemptsTo(r, u) <= 1
           /\ \A u \in Users :
                 AttemptsTo(r, u) = 1 => u \in r.subs0 \ {r.excl}
           /\ r.pc \in {"done", "raised"}
              => \A u \in r.stayed \ {r.excl} : AttemptsTo(r, u) = 1

\* a broadcast has ended after others changed the registry under it: one
\* subscriber left meanwhile and was not sent to, one stayed and was sent to,
\* and that send failed
C23_Witness ==
    /\ returned.op = "broadcast_to_calendar" /\ ~returned.clean
    /\ returned.stayed # returned.subs0
    /\ \E u \in returned.stayed : u \in Failed(returned)

\* C24: in every state in which a broadcast is suspended in a send, every
\* disconnect() can run (it is one step), every connect() that is waiting
\* for its accept can register and return, every other suspended broadcast
\* can go on when its own send has returned, and, a coroutine and a
\* WebSocket object being there, a
\* connect() for any pair and a broadcast to any calendar can start: none
\* of them waits for the pending send.
C24_NoWaitingForSends ==
    (\E q \in Procs : procs[q].pc = "send")
    => /\ \A u \in Users, c \in Calendars :
             ENABLED (Disconnect(u, c) /\ NoEndpointStep)
       /\ \A p \in Procs :
             procs[p].pc = "accept"
             => ENABLED (ConnectAccepted(p) /\ NoEndpointStep)
       /\ \A p \in Procs :
             (/\ procs[p].pc = "send" /\ procs[p].op = "broadcast_to_calendar"
              /\ \E q \in Procs \ {p} : procs[q].pc = "send")
             => ENABLED (BroadcastToCalendarSent(p, TRUE) /\ NoEndpointStep)
       /\ \A p \in Procs :
             NewCoroutine(p)
             => /\ \A c \in Calendars :
                       ENABLED (BroadcastToCalendarCall(p, c, None)
                                /\ NoEndpointStep)
                /\ \A w \in WebSockets, u \in Users, c \in Calendars :
                       NewWebSocket(w)
                       => ENABLED (ConnectCall(p, w, u, c) /\ NoEndpointStep)

\* while a broadcast is suspended in a send, a disconnect() of another user
\* from another calendar has run
C24_Witness ==
    /\ returned.op = "disconnect" /\ returned.pc = "done" /\ returned.was
    /\ \E p \in Procs :
          /\ procs[p].pc = "send" /\ procs[p].log = <<>> /\ ~procs[p].clean
          /\ procs[p].user # returned.user /\ procs[p].cal # returned.cal

\* the pairs that are registered, in either map
Pairs(ac, cs) ==
    {uc \in Users \X Calendars :
        \/ uc[1] \in DOMAIN ac /\ Has(ac[uc[1]], uc[2])
        \/ uc[2] \in DOMAIN cs /\ uc[1] \in cs[uc[2]]}
\* the pairs whose send failed in a call
FailedPairs(r) ==
    {<<r.log[i].user, r.log[i].cal>> : i \in {j \in 1..Len(r.log) : ~r.log[j].ok}}

\* C25: the two maps change only in a step in which connect() registers, in a
\* disconnect(), or in the last step of a broadcast of which a send failed;
\* a pair comes in only by its connect(), a broadcast takes out only pairs
\* whose send failed, and a broadcast all of whose sends went through leaves
\* both maps as they are in every one of its steps.  The two counts are
\* read-only: reading them in a state changes nothing.
C25_OnlyConnectAndDisconnectMutate ==
    [][LET before == Pairs(active_connections, calendar_subscribers)
           after == Pairs(active_connections', calendar_subscribers')
       IN  /\ <<active_connections', calendar_subscribers'>>
                # <<active_connections, calendar_subscribers>>
              => \/ returned'.op = "connect" /\ returned'.pc = "done"
                 \/ returned'.op = "disconnect"
                 \/ EndsBroadcast /\ Failed(returned') # {}
           /\ after \ before # {}
              => /\ returned'.op = "connect"
                 /\ after \ before = {<<returned'.user, returned'.cal>>}
           /\ EndsBroadcast => before \ after \subseteq FailedPairs(returned')
           /\ returned'.op = "disconnect"
              => before \ after \subseteq {<<returned'.user, returned'.cal>>}]_vars

\* a broadcast has returned after two sends that both went through
C25_Witness ==
    /\ returned.op \in {"broadcast_to_calendar", "broadcast_to_user"}
    /\ returned.pc = "done"
    /\ Len(returned.log) = 2 /\ Failed(returned) = {}

\* the channels on which a send of a call failed
FailedChannels(r) == {r.log[i].ws : i \in {j \in 1..Len(r.log) : ~r.log[j].ok}}

\* C26: the cleanup at the end of a broadcast takes out only channels on which
\* a send of that broadcast failed: every other channel that is registered
\* when the cleanup runs, such as one the user of a failed send has connected
\* to the same calendar meanwhile, is registered for the same pair afterwards
\* and its user is still a subscriber.
C26_CleanupRemovesOnlyFailedChannel ==
    [][EndsBroadcast
       => \A w \in WebSockets \ FailedChannels(returned') :
              /\ RegisteredUnder(w)' = RegisteredUnder(w)
              /\ \A uc \in RegisteredUnder(w) :
                     uc[1] \in SubscribersNow(uc[2])']_vars

\* handler h calls manager.disconnect in this step
Disconnects(h) ==
    /\ endpoints[h].pc # "idle" /\ ~endpoints[h].disconnected
    /\ \/ endpoints'[h].disconnected
       \/ finished'.disconnected /\ finished'.ws = endpoints[h].ws

\* C27: when a handler ends and calls disconnect for its pair, every channel
\* other than the handler's own stays registered as it was, in particular the
\* channel of a later connection of the same pair, whose handler is running,
\* and that pair's user is still a subscriber of the calendar.
C27_SupersededHandlerLeavesReplacement ==
    [][\A h \in Endpoints :
          Disconnects(h)
          => \A w \in WebSockets \ {endpoints[h].ws} :
                 /\ RegisteredUnder(w)' = RegisteredUnder(w)
                 /\ \A uc \in RegisteredUnder(w) :
                        uc[1] \in SubscribersNow(uc[2])']_vars

\* the connection map ac holds the channel for the pair
HoldsChannel(ac, user_id, calendar_id, websocket) ==
    /\ user_id \in DOMAIN ac
    /\ [k |-> calendar_id, v |-> websocket] \in Items(ac[user_id])

\* C28: when disconnect(u, cal) has returned the pair has no channel and u is
\* not a subscriber of cal; every send a broadcast begins is on a channel
\* that is registered for the send's pair at that moment, so none begins on
\* a channel that was removed, also not in a broadcast_to_calendar whose
\* snapshot holds u; and a channel that is not registered comes into the
\* registry only by a connect() to it.
C28_NoSendAfterDisconnect ==
    /\ [](returned.op = "disconnect"
          => /\ ChannelsFor(returned.user, returned.cal) = {}
             /\ returned.user \notin SubscribersNow(returned.cal))
    /\ [][/\ \A p \in Procs :
                BeginsSend(p)
                => HoldsChannel(active_connections', procs'[p].user,
                                procs'[p].cal, procs'[p].ws)
          /\ \A w \in WebSockets :
                (RegisteredUnder(w) = {} /\ RegisteredUnder(w)' # {})
                => /\ returned'.op = "connect" /\ returned'.ws = w
                   /\ \A p \in Procs : procs[p].pc = "send" => procs[p].ws # w]_vars

\* a broadcast_to_calendar has returned: a user of its snapshot was
\* disconnected while it was sending to another, and was not sent to
C28_Witness ==
    /\ returned.op = "broadcast_to_calendar" /\ returned.pc = "done"
    /\ Delivered(returned) # {}
    /\ \E u \in returned.subs0 \ returned.stayed :
          /\ u \notin Attempted(returned)
          /\ ChannelsFor(u, returned.cal) = {}

Goodbye(e, r) ==
    /\ e.disconnected /\ e.calls = 1
    /\ e.msg.type = <<"user", "disconnected">>
    /\ r.op = "broadcast_to_calendar" /\ r.cal = e.cal /\ r.excl = None
    /\ e.user \notin r.subs0
    /\ e.msg.subscribers = Cardinality(r.subs0)
    /\ Attempted(r) \subseteq r.subs0
    /\ r.pc = "send" => r.user \in r.subs0
    /\ e.ws \notin ChannelsOf(r)

\* C30: when the client has closed the connection, the handler makes one
\* broadcast, of user:disconnected, to its calendar with nobody excluded; the
\* broadcast's snapshot of the subscribers is taken in the same step after
\* the pair was deregistered, so the handler's user is not in it, and the
\* subscribers field of the message is the size of that snapshot; the
\* message goes to users of the snapshot only, never on the handler's
\* channel, and, when nobody else changed the registry meanwhile, once to
\* every user of the snapshot.
C30_GoodbyeAfterDeregistration ==
    /\ [](\A h \in Endpoints :
             endpoints[h].pc = "goodbye"
             => Goodbye(endpoints[h], procs[endpoints[h].proc]))
    /\ []((finished.pc = "ended" /\ finished.disconnected /\ finished.calls > 0)
          => /\ Goodbye(finished, returned)
             /\ returned.pc = "done"
             /\ returned.clean
                => /\ Attempted(returned) = returned.subs0
                   /\ Len(returned.log) = Cardinality(returned.subs0))
    /\ [][\A h \in Endpoints :
             (Disconnects(h) /\ endpoints'[h].pc = "goodbye")
             => /\ procs'[endpoints'[h].proc].subs0
                     = SubscribersNow(endpoints[h].cal)'
                /\ ~HoldsChannel(active_connections', endpoints[h].user,
                                 endpoints[h].cal, endpoints[h].ws)]_vars

\* a handler has ended after its client closed the connection: the one other
\* subscriber of the calendar was sent user:disconnected with the count 1
C30_Witness ==
    /\ finished.pc = "ended" /\ finished.disconnected /\ finished.calls = 1
    /\ finished.msg.subscribers = 1
    /\ Delivered(returned) = returned.subs0
    /\ returned.clean
====
